---- MODULE Spec2Model ----
(***************************************************************************)
(* Model of pilz_trajectory_generation: trajectory_functions.cpp           *)
(* (src/unnamed/part_001), trajectory_appender.cpp and the inline helpers  *)
(* of trajectory_generator.h.                                              *)
(*                                                                         *)
(* Numbers.  The C++ code computes on doubles.  The model computes on      *)
(* exact rationals <<n, d>> (d > 0, lowest terms); floating-point rounding *)
(* is not modelled.  Times are integers counted in units of 5e-6 s, so the *)
(* two constants 10e-6 of the source are 2 units.  Joint positions are     *)
(* integers in an arbitrary position unit.                                 *)
(***************************************************************************)
EXTENDS Integers, Sequences, FiniteSets, TLC

(***************************************************************************)
(* Bounds of the model                                                     *)
(***************************************************************************)
\* joint positions range over 0..MaxPos
MaxPos == 1
\* interval durations handed to the sample validator range over 0..MaxInterval
MaxInterval == 4

\* trajectory.Duration() and time_from_start range over 0..MaxTime
MaxTime == 9
\* sampling_time ranges over -1..MaxSamplingTime
MaxSamplingTime == 4
\* a CartesianTrajectory holds at most MaxPoints points
MaxPoints == 3
\* merge: the accumulator holds at most MaxResult waypoints, a segment at most MaxSource
MaxResult == 3
MaxSource == 2
\* TrajectoryAppender::merge: at most MaxMerges calls on one accumulator
MaxMerges == 3
\* determineAndCheckSamplingTime: a trajectory holds at most MaxWaypoints waypoints
MaxWaypoints == 4
\* std::size_t is modelled with SizeBits bits (64 in the build)
SizeBits == 4

VARIABLES
  vs_args,   \* verifySampleJointLimits: the arguments of the call
  vs_ret,    \* verifySampleJointLimits: <<>> before the call, <<value returned>> after
  g_in,      \* generateJointTrajectory: the const arguments of the call
  pc,        \* generateJointTrajectory: position in the function
  t_sample,             \* loop variable of the time-sample loop
  time_samples,         \* std::vector<double> time_samples
  iter,                 \* time_iter / i, as a 1-based index
  ik_solution_last,
  ik_solution,
  joint_velocity_last,
  cart_duration_last,     \* duration_last of the CartesianTrajectory overload
  cart_duration_current,  \* duration_current of the CartesianTrajectory overload
  joint_trajectory,     \* the output argument: [joint_names, points]
  error_code,           \* the output argument error_code.val
  ret,                  \* <<>> while running, <<value returned>> after
  ik_calls,             \* history: the computePoseIK calls made, in order
  verify_calls,         \* history: the verifySampleJointLimits calls made, in order
  m_result,  \* TrajectoryAppender::merge: the accumulator trajectory
  m_last,    \* history: <<>>, or the arguments of the last merge call
  m_totals,  \* history: number of merge calls, sum of the segment sizes, spliced merges
  s_args,    \* determineAndCheckSamplingTime: the const arguments of the call
  s_sampling_time,  \* determineAndCheckSamplingTime: the in/out argument sampling_time
  s_ret,     \* determineAndCheckSamplingTime: <<>> before the call, <<value returned>> after
  rq_req,    \* validateRequest: the scaling factors and the goal constraint of the request
  rq_pc,     \* validateRequest: position in the function
  rq_thrown, \* validateRequest: <<>>, or <<exception thrown>>
  ls_in,     \* linearSearchIntersectionPoint: the const arguments and index on entry
  ls_pc,     \* linearSearchIntersectionPoint: position in the function
  ls_i,      \* linearSearchIntersectionPoint: the loop variable i
  ls_index,  \* linearSearchIntersectionPoint: the in/out argument index
  ls_ret,    \* linearSearchIntersectionPoint: <<>> while running, <<value returned>> after
  ls_accessed,  \* history: the indices handed to getWayPointPtr
  pik_in,    \* computePoseIK: the arguments of the call, solution as on entry
  pik_out    \* computePoseIK: <<>> before the call, <<outcome>> after

verify_vars == <<vs_args, vs_ret>>
gen_vars == <<g_in, pc, t_sample, time_samples, iter, ik_solution_last, ik_solution, joint_velocity_last, cart_duration_last, cart_duration_current, joint_trajectory, error_code, ret, ik_calls, verify_calls>>
merge_vars == <<m_result, m_last, m_totals>>
sampling_vars == <<s_args, s_sampling_time, s_ret>>
request_vars == <<rq_req, rq_pc, rq_thrown>>
search_vars == <<ls_in, ls_pc, ls_i, ls_index, ls_ret, ls_accessed>>
pose_ik_vars == <<pik_in, pik_out>>
non_gen_vars == <<verify_vars, merge_vars, sampling_vars, request_vars, search_vars, pose_ik_vars>>
vars == <<verify_vars, gen_vars, merge_vars, sampling_vars, request_vars, search_vars, pose_ik_vars>>

(***************************************************************************)
(* Exact rational arithmetic standing for double arithmetic                *)
(***************************************************************************)
Abs(x) == IF x < 0 THEN -x ELSE x

RECURSIVE Gcd(_, _)
Gcd(a, b) == IF b = 0 THEN a ELSE Gcd(b, a % b)

\* n/d in lowest terms with a positive denominator (d # 0)
Rat(n, d) ==
  LET s == IF d < 0 THEN -1 ELSE 1
      g == Gcd(Abs(n), Abs(d))
  IN  <<(s * n) \div g, (s * d) \div g>>

RInt(n) == <<n, 1>>
RAdd(x, y) == Rat(x[1] * y[2] + y[1] * x[2], x[2] * y[2])
RSub(x, y) == Rat(x[1] * y[2] - y[1] * x[2], x[2] * y[2])
RMul(x, y) == Rat(x[1] * y[1], x[2] * y[2])
RDiv(x, y) == Rat(x[1] * y[2], x[2] * y[1])
fabs(x) == <<Abs(x[1]), x[2]>>
RLe(x, y) == x[1] * y[2] <= y[1] * x[2]
RGt(x, y) == x[1] * y[2] > y[1] * x[2]
RZero == RInt(0)

(***************************************************************************)
(* Joints and std::map<std::string, double>                                *)
(***************************************************************************)
\* std::map iterates its keys in ascending order
JointOrder == <<"j1", "j2">>
Joints == {JointOrder[i] : i \in 1..Len(JointOrder)}

IsKey(j, m) == j \in DOMAIN m
Keys(m) == SelectSeq(JointOrder, LAMBDA j : IsKey(j, m))

(***************************************************************************)
(* JointLimitsContainer                                                    *)
(***************************************************************************)
\* the limits a joint may declare; max_deceleration is negative by convention
LimitChoices ==
  { [max_velocity |-> <<1, 3>>, has_acceleration_limits |-> TRUE,
     max_acceleration |-> <<1, 9>>, has_deceleration_limits |-> TRUE,
     max_deceleration |-> <<-1, 6>>],
    [max_velocity |-> <<1, 4>>, has_acceleration_limits |-> FALSE,
     max_acceleration |-> <<0, 1>>, has_deceleration_limits |-> TRUE,
     max_deceleration |-> <<-1, 18>>],
    [max_velocity |-> <<1, 1>>, has_acceleration_limits |-> TRUE,
     max_acceleration |-> <<1, 9>>, has_deceleration_limits |-> FALSE,
     max_deceleration |-> <<0, 1>>] }

JointLimitsContainers == [Joints -> LimitChoices]

getLimit(joint_limits, joint_name) == joint_limits[joint_name]

verifyVelocityLimit(joint_limits, joint_name, joint_velocity) ==
  ~ RGt(fabs(joint_velocity), getLimit(joint_limits, joint_name).max_velocity)

(***************************************************************************)
(* pilz::verifySampleJointLimits                                           *)
(***************************************************************************)
verify_epsilon == 2

velocityOf(position_last, position_current, duration_current, j) ==
  RDiv(RInt(position_current[j] - position_last[j]), RInt(duration_current))

accelerationOf(velocity_current, velocity_last, duration_last, duration_current, j) ==
  RMul(RDiv(RSub(velocity_current, velocity_last[j]),
            RInt(duration_last + duration_current)), RInt(2))

\* jointWithinLimits with the acceleration case taken only on a strict increase
\* of |velocity| (a sample keeping its speed is then judged as decelerating)
jointWithinLimits_lt(position_last, velocity_last, position_current, duration_last, duration_current, joint_limits, j) ==
  LET velocity_current ==
        velocityOf(position_last, position_current, duration_current, j)
      acceleration_current ==
        accelerationOf(velocity_current, velocity_last,
                       duration_last, duration_current, j)
      lim == getLimit(joint_limits, j)
  IN  IF ~ verifyVelocityLimit(joint_limits, j, velocity_current)
      THEN FALSE
      ELSE IF RGt(fabs(velocity_current), fabs(velocity_last[j]))
           THEN ~ (lim.has_acceleration_limits
                   /\ RGt(fabs(acceleration_current), fabs(lim.max_acceleration)))
           ELSE ~ (lim.has_deceleration_limits
                   /\ RGt(fabs(acceleration_current), fabs(lim.max_deceleration)))

\* the body of the loop over position_current for one joint: TRUE when no
\* limit of the joint is violated
jointWithinLimits(position_last, velocity_last, position_current, duration_last, duration_current, joint_limits, j) ==
  LET velocity_current ==
        velocityOf(position_last, position_current, duration_current, j)
      acceleration_current ==
        accelerationOf(velocity_current, velocity_last,
                       duration_last, duration_current, j)
      lim == getLimit(joint_limits, j)
  IN  IF ~ verifyVelocityLimit(joint_limits, j, velocity_current)
      THEN FALSE
      ELSE IF RLe(fabs(velocity_last[j]), fabs(velocity_current))
           THEN ~ (lim.has_acceleration_limits
                   /\ RGt(fabs(acceleration_current), fabs(lim.max_acceleration)))
           ELSE ~ (lim.has_deceleration_limits
                   /\ RGt(fabs(acceleration_current), fabs(lim.max_deceleration)))

RECURSIVE verifyLoop(_, _, _, _, _, _, _, _)
verifyLoop(keys, i, position_last, velocity_last, position_current, duration_last, duration_current, joint_limits) ==
  IF i > Len(keys)
  THEN TRUE
  ELSE IF ~ jointWithinLimits(position_last, velocity_last, position_current,
                              duration_last, duration_current, joint_limits, keys[i])
       THEN FALSE
       ELSE verifyLoop(keys, i + 1, position_last, velocity_last, position_current,
                       duration_last, duration_current, joint_limits)

\* std::map::at in the loop of verifySampleJointLimits: TRUE when a lookup of
\* position_last or velocity_last throws std::out_of_range before the
\* function has returned
RECURSIVE atThrowsLoop(_, _, _, _, _, _, _, _)
atThrowsLoop(keys, i, position_last, velocity_last, position_current, duration_last, duration_current, joint_limits) ==
  IF i > Len(keys) THEN FALSE
  ELSE IF ~ IsKey(keys[i], position_last) THEN TRUE
  ELSE IF ~ verifyVelocityLimit(joint_limits, keys[i], velocityOf(position_last, position_current, duration_current, keys[i])) THEN FALSE
  ELSE IF ~ IsKey(keys[i], velocity_last) THEN TRUE
  ELSE IF ~ jointWithinLimits(position_last, velocity_last, position_current, duration_last, duration_current, joint_limits, keys[i]) THEN FALSE
  ELSE atThrowsLoop(keys, i + 1, position_last, velocity_last, position_current, duration_last, duration_current, joint_limits)

verifySampleJointLimitsThrows(position_last, velocity_last, position_current, duration_last, duration_current, joint_limits) ==
  IF duration_current <= verify_epsilon
  THEN FALSE
  ELSE atThrowsLoop(Keys(position_current), 1, position_last, velocity_last, position_current, duration_last, duration_current, joint_limits)

\* verifySampleJointLimits refusing only a duration below the epsilon
verifySampleJointLimits_lt(position_last, velocity_last, position_current, duration_last, duration_current, joint_limits) ==
  IF duration_current < verify_epsilon
  THEN FALSE
  ELSE verifyLoop(Keys(position_current), 1, position_last, velocity_last,
                  position_current, duration_last, duration_current, joint_limits)

verifySampleJointLimits(position_last, velocity_last, position_current, duration_last, duration_current, joint_limits) ==
  IF duration_current <= verify_epsilon
  THEN FALSE
  ELSE verifyLoop(Keys(position_current), 1, position_last, velocity_last,
                  position_current, duration_last, duration_current, joint_limits)

(***************************************************************************)
(* The sample validator applied to bounded arguments                       *)
(***************************************************************************)
Positions == [Joints -> 0..MaxPos]
VelocityChoices == {<<0, 1>>, <<1, 3>>, <<-1, 2>>}
Velocities == [Joints -> VelocityChoices]

VerifyArgs ==
  [position_last : Positions, velocity_last : Velocities,
   position_current : Positions, duration_last : 1..MaxInterval,
   duration_current : 0..MaxInterval, joint_limits : JointLimitsContainers]

VerifyIdle ==
  /\ vs_args = <<>>
  /\ vs_ret = <<>>

GenIdle ==
  /\ g_in = <<>>
  /\ pc = "idle"
  /\ t_sample = 0
  /\ time_samples = <<>>
  /\ iter = 0
  /\ ik_solution_last = <<>>
  /\ ik_solution = <<>>
  /\ joint_velocity_last = <<>>
  /\ cart_duration_last = 0
  /\ cart_duration_current = 0
  /\ joint_trajectory = <<>>
  /\ error_code = "SUCCESS"
  /\ ret = <<>>
  /\ ik_calls = <<>>
  /\ verify_calls = <<>>

MergeIdle ==
  /\ m_result = <<>>
  /\ m_last = <<>>
  /\ m_totals = <<>>

SamplingIdle ==
  /\ s_args = <<>>
  /\ s_sampling_time = 0
  /\ s_ret = <<>>

RequestIdle ==
  /\ rq_req = <<>>
  /\ rq_pc = "idle"
  /\ rq_thrown = <<>>

SearchIdle ==
  /\ ls_in = <<>>
  /\ ls_pc = "idle"
  /\ ls_i = 0
  /\ ls_index = 0
  /\ ls_ret = <<>>
  /\ ls_accessed = {}

PoseIKIdle ==
  /\ pik_in = <<>>
  /\ pik_out = <<>>

InitVerify ==
  /\ vs_args \in VerifyArgs
  /\ vs_ret = <<>>
  /\ GenIdle
  /\ MergeIdle
  /\ SamplingIdle
  /\ RequestIdle
  /\ SearchIdle
  /\ PoseIKIdle

CallVerify ==
  /\ vs_ret = <<>>
  /\ vs_ret' = <<verifySampleJointLimits(vs_args.position_last, vs_args.velocity_last, vs_args.position_current, vs_args.duration_last, vs_args.duration_current, vs_args.joint_limits)>>
  /\ UNCHANGED <<vs_args, gen_vars, merge_vars, sampling_vars, request_vars, search_vars, pose_ik_vars>>

NextVerify == CallVerify

SpecVerify == InitVerify /\ [][NextVerify]_vars

\* C4 (as the claim words the failure condition): joint j violates a limit
C4_velocity(j) ==
  RDiv(RInt(vs_args.position_current[j] - vs_args.position_last[j]), RInt(vs_args.duration_current))

C4_acceleration(j) ==
  RDiv(RMul(RInt(2), RSub(C4_velocity(j), vs_args.velocity_last[j])), RInt(vs_args.duration_last + vs_args.duration_current))

C4_velocityFails(j) ==
  RGt(fabs(C4_velocity(j)), vs_args.joint_limits[j].max_velocity)

C4_accelerationFails(j) ==
  /\ RLe(fabs(vs_args.velocity_last[j]), fabs(C4_velocity(j)))
  /\ vs_args.joint_limits[j].has_acceleration_limits
  /\ RGt(fabs(C4_acceleration(j)), fabs(vs_args.joint_limits[j].max_acceleration))

C4_decelerationFails(j) ==
  /\ RGt(fabs(vs_args.velocity_last[j]), fabs(C4_velocity(j)))
  /\ vs_args.joint_limits[j].has_deceleration_limits
  /\ RGt(fabs(C4_acceleration(j)), fabs(vs_args.joint_limits[j].max_deceleration))

\* C4: called with duration_current above the minimum epsilon,
\* verifySampleJointLimits returns false if and only if some joint of
\* position_current exceeds its max velocity, or accelerates beyond a declared
\* max acceleration, or decelerates beyond a declared max deceleration; a
\* joint that declares no acceleration (deceleration) limit never fails that check.
C4_ValidatorVerdict ==
  (vs_ret # <<>> /\ vs_args.duration_current > verify_epsilon)
    => (vs_ret[1] = FALSE
          <=> \E j \in DOMAIN vs_args.position_current :
                C4_velocityFails(j) \/ C4_accelerationFails(j) \/ C4_decelerationFails(j))

\* C4 witness: the validator rejected a sample whose velocities are all within
\* limits, because a decelerating joint exceeds its declared deceleration limit
\* while another joint, without acceleration limits, accelerates freely
C4_Witness ==
  /\ vs_ret = <<FALSE>>
  /\ vs_args.duration_current > verify_epsilon
  /\ \A j \in Joints : ~ C4_velocityFails(j)
  /\ \E j \in Joints : C4_decelerationFails(j)
  /\ \E j \in Joints :
        /\ ~ vs_args.joint_limits[j].has_acceleration_limits
        /\ RLe(fabs(vs_args.velocity_last[j]), fabs(C4_velocity(j)))
        /\ RGt(fabs(C4_acceleration(j)), fabs(vs_args.joint_limits[j].max_acceleration))

\* some joint violates a limit over the current interval
C13_LimitViolated ==
  \E j \in DOMAIN vs_args.position_current :
    C4_velocityFails(j) \/ C4_accelerationFails(j) \/ C4_decelerationFails(j)

\* C13 (as claimed): the validator refuses exactly the current-interval
\* durations at or below 1e-6 s (0.2 time units); every longer duration is
\* judged against the joint limits.
C13_RefusedAtOrBelow1e6 ==
  vs_ret # <<>> =>
    IF 5 * vs_args.duration_current <= 1
    THEN vs_ret = <<FALSE>>
    ELSE vs_ret[1] = ~ C13_LimitViolated

\* C13 (amended): the validator refuses exactly the current-interval durations
\* at or below 10e-6 s = 1e-5 s (2 time units), 1e-5 s itself included; every
\* longer duration is judged against the joint limits.
C13_RefusedAtOrBelow1e5 ==
  vs_ret # <<>> =>
    IF vs_args.duration_current <= 2
    THEN vs_ret = <<FALSE>>
    ELSE vs_ret[1] = ~ C13_LimitViolated

\* C13 witness: a sample over a current interval of exactly 1e-5 s that
\* violates no limit was refused
C13_Witness ==
  /\ vs_ret = <<FALSE>>
  /\ vs_args.duration_current = 2
  /\ ~ C13_LimitViolated

(***************************************************************************)
(* pilz::computePoseIK                                                     *)
(***************************************************************************)
\* the active joints of the planning group
getActiveJointModelNames(robot_model) == robot_model.active_joint_model_names

\* RobotState::setFromIK is an external solver: it fails (<<>>) or leaves a
\* state (<<positions of the variables of the robot>>) in rstate, whatever
\* the seed
IKOutcomes == {<<>>} \cup {<<p>> : p \in [Joints -> 0..MaxPos]}

\* robot_model, as far as computePoseIK reads it; the group of the last one
\* has a single active joint
RobotModels ==
  { [hasJointModelGroup |-> TRUE, canSetStateFromIK |-> TRUE, model_frame |-> "world", active_joint_model_names |-> Joints],
    [hasJointModelGroup |-> FALSE, canSetStateFromIK |-> TRUE, model_frame |-> "world", active_joint_model_names |-> Joints],
    [hasJointModelGroup |-> TRUE, canSetStateFromIK |-> FALSE, model_frame |-> "world", active_joint_model_names |-> Joints],
    [hasJointModelGroup |-> TRUE, canSetStateFromIK |-> TRUE, model_frame |-> "world", active_joint_model_names |-> {JointOrder[1]}] }

\* computePoseIK whose copy loop starts from an empty map
computePoseIK_activeOnly(robot_model, frame_id, seed, solution, ik) ==
  IF ~ robot_model.hasJointModelGroup \/ ~ robot_model.canSetStateFromIK
     \/ frame_id # robot_model.model_frame \/ ik = <<>>
  THEN [ok |-> FALSE, solution |-> solution]
  ELSE [ok |-> TRUE, solution |-> [j \in getActiveJointModelNames(robot_model) |-> ik[1][j]]]

\* the value returned and the output argument solution
computePoseIK(robot_model, frame_id, seed, solution, ik) ==
  IF ~ robot_model.hasJointModelGroup
  THEN [ok |-> FALSE, solution |-> solution]
  ELSE IF ~ robot_model.canSetStateFromIK
  THEN [ok |-> FALSE, solution |-> solution]
  ELSE IF frame_id # robot_model.model_frame
  THEN [ok |-> FALSE, solution |-> solution]
  ELSE IF ik # <<>>
  THEN [ok |-> TRUE,
        solution |-> [j \in (DOMAIN solution) \cup getActiveJointModelNames(robot_model) |->
                        IF j \in getActiveJointModelNames(robot_model) THEN ik[1][j] ELSE solution[j]]]
  ELSE [ok |-> FALSE, solution |-> solution]

(***************************************************************************)
(* pilz::generateJointTrajectory, both overloads                           *)
(***************************************************************************)
epsilon == 2

ZeroVelocity == [j \in Joints |-> RZero]

\* initial_joint_position and initial_joint_velocity: maps over all joints,
\* and maps that hold the first joint only
InitialPositions ==
  {[j \in Joints |-> 0], [j \in Joints |-> IF j = JointOrder[1] THEN MaxPos ELSE 0], [j \in {JointOrder[1]} |-> 0]}
InitialVelocities ==
  {ZeroVelocity, [j \in Joints |-> IF j = JointOrder[1] THEN <<1, 3>> ELSE RZero], [j \in {JointOrder[1]} |-> RZero]}

\* the limits handed to the generators: every joint declares the same limits
GenLimits == {[j \in Joints |-> l] : l \in LimitChoices}

\* the output argument joint_trajectory on entry: empty, or left over from
\* an earlier use
StalePoint == [time_from_start |-> 1, positions |-> <<0, 0>>, velocities |-> <<<<1, 1>>, <<1, 1>>>>, accelerations |-> <<<<1, 1>>, <<1, 1>>>>]
EntryTrajectories ==
  { [joint_names |-> <<>>, points |-> <<>>],
    [joint_names |-> <<"j2", "j1">>, points |-> <<StalePoint>>] }

\* time_from_start of the points of a CartesianTrajectory
TimeChoices == {t \in 0..MaxTime : t % 3 = 0}
RECURSIVE SeqsUpTo(_, _)
SeqsUpTo(S, n) ==
  IF n = 0 THEN {<<>>}
  ELSE LET shorter == SeqsUpTo(S, n - 1)
       IN  shorter \cup {Append(q, x) : q \in {r \in shorter : Len(r) = n - 1}, x \in S}

KdlInputs ==
  [overload : {"kdl"}, Duration : 0..MaxTime, sampling_time : -1..MaxSamplingTime,
   points : {<<>>}, initial_joint_position : InitialPositions,
   initial_joint_velocity : {ZeroVelocity}, joint_limits : GenLimits,
   robot_model : RobotModels, entry : EntryTrajectories]

\* the callers hand over a velocity for every joint of initial_joint_position
CartInputs ==
  { x \in [overload : {"cart"}, Duration : {0}, sampling_time : {0},
            points : SeqsUpTo(TimeChoices, MaxPoints), initial_joint_position : InitialPositions,
            initial_joint_velocity : InitialVelocities, joint_limits : GenLimits,
            robot_model : RobotModels, entry : EntryTrajectories] :
      DOMAIN x.initial_joint_velocity = DOMAIN x.initial_joint_position }

InitGen ==
  /\ VerifyIdle
  /\ MergeIdle
  /\ SamplingIdle
  /\ RequestIdle
  /\ SearchIdle
  /\ PoseIKIdle
  /\ g_in \in KdlInputs \cup CartInputs
  /\ pc = "entry"
  /\ t_sample = 0
  /\ time_samples = <<>>
  /\ iter = 0
  /\ ik_solution_last = <<>>
  /\ ik_solution = <<>>
  /\ joint_velocity_last = <<>>
  /\ cart_duration_last = 0
  /\ cart_duration_current = 0
  /\ joint_trajectory = g_in.entry
  /\ error_code = "FAILURE"  \* on entry a code that the call never writes
  /\ ret = <<>>
  /\ ik_calls = <<>>
  /\ verify_calls = <<>>

\* Abort without joint_trajectory.points.clear()
Abort_noClear(code) ==
  /\ error_code' = code
  /\ joint_trajectory' = joint_trajectory
  /\ ret' = <<FALSE>>
  /\ pc' = "returned"

\* error_code.val = code; joint_trajectory.points.clear(); return false;
Abort(code) ==
  /\ error_code' = code
  /\ joint_trajectory' = [joint_trajectory EXCEPT !.points = <<>>]
  /\ ret' = <<FALSE>>
  /\ pc' = "returned"

IKCall(r) == [sample |-> iter, seed |-> ik_solution_last, ok |-> r.ok, solution |-> r.solution]

VerifyCall(position_current, d_last, d_current, verdict) ==
  [sample |-> iter, position_last |-> ik_solution_last, velocity_last |-> joint_velocity_last, position_current |-> position_current, duration_last |-> d_last, duration_current |-> d_current, verdict |-> verdict]

\* an at() lookup throws std::out_of_range: the call is left without a value
\* returned; error_code and the points of joint_trajectory stay as they are
Throw ==
  /\ pc' = "thrown"
  /\ UNCHANGED <<error_code, ret>>

\* map.at(name) throws for some name of names
atThrows(names, map) == \E k \in 1..Len(names) : ~ IsKey(names[k], map)

\* push_back putting the point before the points already held
push_back_front(points, point) == <<point>> \o points

\* joint_trajectory.points.push_back(point)
push_back(points, point) == Append(points, point)

\* the array pushed with one entry per joint of the values, whatever names holds
PerJoint_allValues(names, value) == [k \in 1..Len(Keys(value)) |-> value[Keys(value)[k]]]

\* the array pushed in joint_names order from per-joint values
PerJoint(names, value) == [k \in 1..Len(names) |-> value[names[k]]]

\* ik_solution_last = ik_solution, left out
updateSeed_stale(last, solution) == last

\* ik_solution_last = ik_solution;
updateSeed(last, solution) == solution

(*------------------------ KDL::Trajectory overload ----------------------*)
\* the loop condition with <= and without the epsilon
moreTimeSamples_le(t, Duration) == t <= Duration

\* the loop condition without the epsilon
moreTimeSamples_noEpsilon(t, Duration) == t < Duration

\* the condition of the time-sample loop
moreTimeSamples(t, Duration) == t < Duration - epsilon

KdlBegin ==
  /\ pc = "entry"
  /\ g_in.overload = "kdl"
  /\ t_sample' = 0
  /\ time_samples' = <<>>
  /\ pc' = "time_samples"
  /\ UNCHANGED <<non_gen_vars, g_in, iter, ik_solution_last, ik_solution, joint_velocity_last, cart_duration_last, cart_duration_current, joint_trajectory, error_code, ret, ik_calls, verify_calls>>

\* one pass of the loop that fills time_samples; the vector is capped at
\* MaxTime + 1 elements, which only a sampling_time <= 0 reaches
AddTimeSample ==
  /\ pc = "time_samples"
  /\ moreTimeSamples(t_sample, g_in.Duration)
  /\ Len(time_samples) <= MaxTime
  /\ time_samples' = Append(time_samples, t_sample)
  /\ t_sample' = t_sample + g_in.sampling_time
  /\ UNCHANGED <<non_gen_vars, g_in, pc, iter, ik_solution_last, ik_solution, joint_velocity_last, cart_duration_last, cart_duration_current, joint_trajectory, error_code, ret, ik_calls, verify_calls>>

EndTimeSamples ==
  /\ pc = "time_samples"
  /\ ~ moreTimeSamples(t_sample, g_in.Duration)
  /\ time_samples' = Append(time_samples, g_in.Duration)
  /\ ik_solution_last' = g_in.initial_joint_position
  /\ ik_solution' = <<>>
  /\ joint_velocity_last' = [j \in DOMAIN g_in.initial_joint_position |-> RZero]
  /\ iter' = 1
  /\ pc' = "loop"
  /\ UNCHANGED <<non_gen_vars, g_in, t_sample, cart_duration_last, cart_duration_current, joint_trajectory, error_code, ret, ik_calls, verify_calls>>

kdlDurationCurrentSample(samples, k, sampling_time) ==
  IF Len(samples) = 1 THEN samples[k]
  ELSE IF k = Len(samples) /\ Len(samples) > 1 THEN samples[k] - samples[k - 1]
  ELSE sampling_time

\* kdlAcceleration dividing by the duration instead of its square
kdlAcceleration_linear(position, position_last, velocity_last, duration_current_sample) ==
  RDiv(RMul(RInt(2), RSub(RInt(position - position_last), RMul(velocity_last, RInt(duration_current_sample)))), RInt(duration_current_sample))

kdlAcceleration(position, position_last, velocity_last, duration_current_sample) ==
  RDiv(RMul(RInt(2), RSub(RInt(position - position_last), RMul(velocity_last, RInt(duration_current_sample)))), RInt(duration_current_sample * duration_current_sample))

kdlVelocity(velocity_last, joint_acceleration, duration_current_sample) ==
  RAdd(velocity_last, RMul(joint_acceleration, RInt(duration_current_sample)))

\* kdlInterior without the test for the last sample
kdlInterior_notFirst(k, n) == k # 1

\* whether the sample at index k gets computed velocities (it is neither the
\* first nor the last of n)
kdlInterior(k, n) == k # 1 /\ k # n

\* kdlChecked without the skip of the first sample
kdlChecked_always(k) == TRUE

\* whether the sample at index k is passed to verifySampleJointLimits
kdlChecked(k) == k # 1

KdlSample ==
  /\ pc = "loop"
  /\ g_in.overload = "kdl"
  /\ iter <= Len(time_samples)
  /\ \E ik \in IKOutcomes :
       LET r == computePoseIK(g_in.robot_model, g_in.robot_model.model_frame, ik_solution_last, ik_solution, ik)
           n == Len(time_samples)
           dcs == kdlDurationCurrentSample(time_samples, iter, g_in.sampling_time)
           verdict == verifySampleJointLimits(ik_solution_last, joint_velocity_last, r.solution, g_in.sampling_time, dcs, g_in.joint_limits)
           verify_throws == verifySampleJointLimitsThrows(ik_solution_last, joint_velocity_last, r.solution, g_in.sampling_time, dcs, g_in.joint_limits)
           names == Keys(g_in.initial_joint_position)
           point_throws == \/ atThrows(names, r.solution)
                           \/ kdlInterior(iter, n) /\ (atThrows(names, ik_solution_last) \/ atThrows(names, joint_velocity_last))
           acc(j) == kdlAcceleration(r.solution[j], ik_solution_last[j], joint_velocity_last[j], dcs)
           vel(j) == kdlVelocity(joint_velocity_last[j], acc(j), dcs)
           point == [time_from_start |-> time_samples[iter],
                     positions |-> PerJoint(names, r.solution),
                     velocities |-> PerJoint(names, [j \in DOMAIN r.solution |-> IF kdlInterior(iter, n) THEN vel(j) ELSE RZero]),
                     accelerations |-> PerJoint(names, [j \in DOMAIN r.solution |-> IF kdlInterior(iter, n) THEN acc(j) ELSE RZero])]
       IN  /\ ik_calls' = Append(ik_calls, IKCall(r))
           /\ ik_solution' = r.solution
           /\ IF ~ r.ok
              THEN /\ Abort("NO_IK_SOLUTION")
                   /\ UNCHANGED <<verify_calls, ik_solution_last, joint_velocity_last, iter>>
              ELSE IF kdlChecked(iter) /\ verify_throws
              THEN /\ Throw
                   /\ UNCHANGED <<joint_trajectory, verify_calls, ik_solution_last, joint_velocity_last, iter>>
              ELSE IF kdlChecked(iter) /\ ~ verdict
              THEN /\ Abort("PLANNING_FAILED")
                   /\ verify_calls' = Append(verify_calls, VerifyCall(r.solution, g_in.sampling_time, dcs, verdict))
                   /\ UNCHANGED <<ik_solution_last, joint_velocity_last, iter>>
              ELSE IF point_throws
              THEN /\ Throw
                   /\ verify_calls' = IF kdlChecked(iter) THEN Append(verify_calls, VerifyCall(r.solution, g_in.sampling_time, dcs, verdict)) ELSE verify_calls
                   /\ joint_trajectory' = [joint_trajectory EXCEPT !.joint_names = names]
                   /\ UNCHANGED <<ik_solution_last, joint_velocity_last, iter>>
              ELSE /\ verify_calls' = IF kdlChecked(iter) THEN Append(verify_calls, VerifyCall(r.solution, g_in.sampling_time, dcs, verdict)) ELSE verify_calls
                   /\ joint_trajectory' = [joint_names |-> names, points |-> push_back(joint_trajectory.points, point)]
                   /\ joint_velocity_last' = [j \in (DOMAIN joint_velocity_last) \cup DOMAIN g_in.initial_joint_position |->
                                                IF j \in DOMAIN g_in.initial_joint_position
                                                THEN (IF kdlInterior(iter, n) THEN vel(j) ELSE RZero)
                                                ELSE joint_velocity_last[j]]
                   /\ ik_solution_last' = updateSeed(ik_solution_last, r.solution)
                   /\ iter' = iter + 1
                   /\ UNCHANGED <<error_code, ret, pc>>
  /\ UNCHANGED <<non_gen_vars, g_in, t_sample, time_samples, cart_duration_last, cart_duration_current>>

KdlReturn ==
  /\ pc = "loop"
  /\ g_in.overload = "kdl"
  /\ iter > Len(time_samples)
  /\ error_code' = "SUCCESS"
  /\ ret' = <<TRUE>>
  /\ pc' = "returned"
  /\ UNCHANGED <<non_gen_vars, g_in, t_sample, time_samples, iter, ik_solution_last, ik_solution, joint_velocity_last, cart_duration_last, cart_duration_current, joint_trajectory, ik_calls, verify_calls>>

(*---------------------- CartesianTrajectory overload --------------------*)
CartBegin ==
  /\ pc = "entry"
  /\ g_in.overload = "cart"
  /\ ik_solution_last' = g_in.initial_joint_position
  /\ joint_velocity_last' = g_in.initial_joint_velocity
  /\ cart_duration_last' = 0
  /\ cart_duration_current' = 0
  /\ joint_trajectory' = [joint_trajectory EXCEPT !.joint_names = Keys(g_in.initial_joint_position)]
  /\ ik_solution' = <<>>
  /\ iter' = 1
  /\ pc' = "loop"
  /\ UNCHANGED <<non_gen_vars, g_in, t_sample, time_samples, error_code, ret, ik_calls, verify_calls>>

cartDurationCurrent(points, k) ==
  IF k = 1 THEN points[1] ELSE points[k] - points[k - 1]

cartDurationLast(points, k, d_last) ==
  IF k = 1 THEN points[1] ELSE d_last

cartVelocity(position, position_last, d_current) ==
  RDiv(RInt(position - position_last), RInt(d_current))

cartAcceleration(joint_velocity, velocity_last, d_current, d_last) ==
  RMul(RDiv(RSub(joint_velocity, velocity_last), RInt(d_current + d_last)), RInt(2))

CartSample ==
  /\ pc = "loop"
  /\ g_in.overload = "cart"
  /\ iter <= Len(g_in.points)
  /\ \E ik \in IKOutcomes :
       LET r == computePoseIK(g_in.robot_model, g_in.robot_model.model_frame, ik_solution_last, ik_solution, ik)
           dc == cartDurationCurrent(g_in.points, iter)
           dl == cartDurationLast(g_in.points, iter, cart_duration_last)
           verdict == verifySampleJointLimits(ik_solution_last, joint_velocity_last, r.solution, dl, dc, g_in.joint_limits)
           verify_throws == verifySampleJointLimitsThrows(ik_solution_last, joint_velocity_last, r.solution, dl, dc, g_in.joint_limits)
           names == joint_trajectory.joint_names
           point_throws == atThrows(names, r.solution) \/ atThrows(names, ik_solution_last) \/ atThrows(names, joint_velocity_last)
           vel(j) == cartVelocity(r.solution[j], ik_solution_last[j], dc)
           acc(j) == cartAcceleration(vel(j), joint_velocity_last[j], dc, dl)
           waypoint_joint == [time_from_start |-> g_in.points[iter],
                              positions |-> PerJoint(names, r.solution),
                              velocities |-> PerJoint(names, [j \in DOMAIN r.solution |-> vel(j)]),
                              accelerations |-> PerJoint(names, [j \in DOMAIN r.solution |-> acc(j)])]
       IN  /\ ik_calls' = Append(ik_calls, IKCall(r))
           /\ ik_solution' = r.solution
           /\ IF ~ r.ok
              THEN /\ Abort("NO_IK_SOLUTION")
                   /\ UNCHANGED <<verify_calls, ik_solution_last, joint_velocity_last, iter, cart_duration_last, cart_duration_current>>
              ELSE IF verify_throws
              THEN /\ Throw
                   /\ cart_duration_current' = dc
                   /\ cart_duration_last' = dl
                   /\ UNCHANGED <<joint_trajectory, verify_calls, ik_solution_last, joint_velocity_last, iter>>
              ELSE /\ verify_calls' = Append(verify_calls, VerifyCall(r.solution, dl, dc, verdict))
                   /\ cart_duration_current' = dc
                   /\ IF ~ verdict
                      THEN /\ Abort("PLANNING_FAILED")
                           /\ cart_duration_last' = dl
                           /\ UNCHANGED <<ik_solution_last, joint_velocity_last, iter>>
                      ELSE IF point_throws
                      THEN /\ Throw
                           /\ cart_duration_last' = dl
                           /\ UNCHANGED <<joint_trajectory, ik_solution_last, joint_velocity_last, iter>>
                      ELSE /\ joint_trajectory' = [joint_trajectory EXCEPT !.points = push_back(@, waypoint_joint)]
                           /\ joint_velocity_last' = [j \in (DOMAIN joint_velocity_last) \cup {names[k] : k \in 1..Len(names)} |->
                                                        IF j \in {names[k] : k \in 1..Len(names)} THEN vel(j) ELSE joint_velocity_last[j]]
                           /\ ik_solution_last' = updateSeed(ik_solution_last, r.solution)
                           /\ cart_duration_last' = dc
                           /\ iter' = iter + 1
                           /\ UNCHANGED <<error_code, ret, pc>>
  /\ UNCHANGED <<non_gen_vars, g_in, t_sample, time_samples>>

CartReturn ==
  /\ pc = "loop"
  /\ g_in.overload = "cart"
  /\ iter > Len(g_in.points)
  /\ error_code' = "SUCCESS"
  /\ ret' = <<TRUE>>
  /\ pc' = "returned"
  /\ UNCHANGED <<non_gen_vars, g_in, t_sample, time_samples, iter, ik_solution_last, ik_solution, joint_velocity_last, cart_duration_last, cart_duration_current, joint_trajectory, ik_calls, verify_calls>>

NextGen ==
  \/ KdlBegin
  \/ AddTimeSample
  \/ EndTimeSamples
  \/ KdlSample
  \/ KdlReturn
  \/ CartBegin
  \/ CartSample
  \/ CartReturn

SpecGen == InitGen /\ [][NextGen]_vars

(***************************************************************************)
(* Properties of generateJointTrajectory                                   *)
(***************************************************************************)
Returned == ret # <<>>
Succeeded == ret = <<TRUE>>
FailedReturn == ret = <<FALSE>>

\* the number of points joint_trajectory held on entry
Base == Len(g_in.entry.points)
\* the waypoints appended by the call (before any clear())
Emitted == SubSeq(joint_trajectory.points, Base + 1, Len(joint_trajectory.points))
NumEmitted == IF Len(joint_trajectory.points) >= Base THEN Len(joint_trajectory.points) - Base ELSE 0

\* the number of samples of the call (known once the time samples are complete)
NumSamples == IF g_in.overload = "kdl" THEN Len(time_samples) ELSE Len(g_in.points)

IKFailed == \E k \in 1..Len(ik_calls) : ~ ik_calls[k].ok
LimitFailed == \E k \in 1..Len(verify_calls) : ~ verify_calls[k].verdict

AllZero(q) == \A k \in 1..Len(q) : q[k] = RZero

\* C1: generateJointTrajectory (both overloads) returns false exactly when some
\* sample failed (IK failure or limit violation); it stops at the first failing
\* sample; on a false return points is empty and error_code is NO_IK_SOLUTION
\* for an IK failure and PLANNING_FAILED for a limit violation; it returns
\* true only with error_code SUCCESS.
C1_AtomicFailure ==
  /\ (IKFailed \/ LimitFailed) => FailedReturn
  /\ FailedReturn => (IKFailed \/ LimitFailed)
  /\ \A k \in 1..Len(ik_calls) : ~ ik_calls[k].ok =>
        /\ k = Len(ik_calls)
        /\ \A c \in 1..Len(verify_calls) : verify_calls[c].sample < ik_calls[k].sample
        /\ NumSamples >= k
  /\ \A c \in 1..Len(verify_calls) : ~ verify_calls[c].verdict =>
        /\ c = Len(verify_calls)
        /\ verify_calls[c].sample = Len(ik_calls)
        /\ ik_calls[Len(ik_calls)].ok
  /\ FailedReturn =>
        /\ joint_trajectory.points = <<>>
        /\ IKFailed => error_code = "NO_IK_SOLUTION"
        /\ LimitFailed => error_code = "PLANNING_FAILED"
  /\ Succeeded => error_code = "SUCCESS"

\* C1 witness: a call that had points on entry and had appended waypoints
\* returned false on a limit violation
C1_Witness ==
  /\ FailedReturn
  /\ LimitFailed
  /\ Base > 0
  /\ Len(ik_calls) >= 3

\* C2 (as claimed): every successfully returned trajectory, of either overload,
\* has zero velocity and acceleration on every joint in the first and in the
\* last waypoint the call produced.
C2_RestAtBothEnds ==
  (Succeeded /\ NumEmitted > 0) =>
     /\ AllZero(Emitted[1].velocities) /\ AllZero(Emitted[1].accelerations)
     /\ AllZero(Emitted[NumEmitted].velocities) /\ AllZero(Emitted[NumEmitted].accelerations)

\* C2 (amended): every trajectory returned successfully by the KDL::Trajectory
\* overload has zero velocity and acceleration on every joint in the first and
\* in the last waypoint the call appended, a single-sample path included.
C2_KdlRestAtBothEnds ==
  (Succeeded /\ g_in.overload = "kdl") =>
     /\ NumEmitted > 0
     /\ Len(Emitted[1].velocities) = Len(Keys(g_in.initial_joint_position))
     /\ AllZero(Emitted[1].velocities) /\ AllZero(Emitted[1].accelerations)
     /\ AllZero(Emitted[NumEmitted].velocities) /\ AllZero(Emitted[NumEmitted].accelerations)

\* C2 witness: the KDL overload succeeded on a path of at least three samples
\* whose last sample moves a joint that was moving before
C2_Witness ==
  /\ Succeeded
  /\ g_in.overload = "kdl"
  /\ NumEmitted >= 3
  /\ ~ AllZero(Emitted[NumEmitted - 1].velocities)
  /\ Emitted[NumEmitted].positions # Emitted[NumEmitted - 1].positions

TimeSamplesComplete == g_in.overload = "kdl" /\ pc \in {"loop", "returned"}

\* C3: KDL overload, sampling_time > 0: the sample instants are strictly
\* increasing, the last one equals Duration, every other one is below
\* Duration - epsilon (so no instant within epsilon of Duration is emitted
\* besides Duration itself), and waypoint k carries time_from_start = instant k.
C3_SampleInstants ==
  (g_in.overload = "kdl" /\ g_in.sampling_time > 0) =>
     /\ \A k \in 1..(Len(time_samples) - 1) : time_samples[k] < time_samples[k + 1]
     /\ TimeSamplesComplete =>
          /\ Len(time_samples) >= 1
          /\ time_samples[Len(time_samples)] = g_in.Duration
          /\ \A k \in 1..(Len(time_samples) - 1) : time_samples[k] < g_in.Duration - epsilon
          /\ \A k \in 1..Len(time_samples) : time_samples[k] = (k - 1) * g_in.sampling_time \/ k = Len(time_samples)
          /\ ~ FailedReturn =>
               /\ NumEmitted <= Len(time_samples)
               /\ \A k \in 1..NumEmitted : Emitted[k].time_from_start = time_samples[k]
               /\ \A k \in 1..(NumEmitted - 1) : Emitted[k].time_from_start < Emitted[k + 1].time_from_start

\* C3 witness: a successful run of at least three samples in which a multiple
\* of sampling_time lies strictly within epsilon below Duration and is skipped
C3_Witness ==
  /\ Succeeded
  /\ g_in.overload = "kdl"
  /\ g_in.sampling_time > 0
  /\ Len(time_samples) >= 3
  /\ \E m \in 1..MaxTime :
        /\ m * g_in.sampling_time < g_in.Duration
        /\ g_in.Duration - m * g_in.sampling_time < epsilon
        /\ \A k \in 1..Len(time_samples) : time_samples[k] # m * g_in.sampling_time

\* the verifySampleJointLimits call that accepted sample k with these positions
ValidatedBy(k, positions) ==
  \E c \in 1..Len(verify_calls) :
     /\ verify_calls[c].sample = k
     /\ verify_calls[c].verdict
     /\ \A x \in 1..Len(joint_trajectory.joint_names) :
          verify_calls[c].position_current[joint_trajectory.joint_names[x]] = positions[x]

\* C8 (as claimed): in both overloads every emitted waypoint but the first was
\* validated before, and the first sample is never passed to
\* verifySampleJointLimits.
C8_FirstSampleNeverValidated ==
  /\ ~ FailedReturn => \A k \in 2..NumEmitted : ValidatedBy(k, Emitted[k].positions)
  /\ \A c \in 1..Len(verify_calls) : verify_calls[c].sample # 1

\* C8 (amended): in the KDL overload every emitted waypoint but the first was
\* validated before and the first sample is never passed to
\* verifySampleJointLimits; in the CartesianTrajectory overload every emitted
\* waypoint, the first included, was validated before: the first sample is
\* checked against the initial joint position and velocity with both durations
\* equal to its time_from_start, so a first point whose time_from_start is at
\* most the validator's epsilon is rejected with PLANNING_FAILED.
C8_ValidatedBeforeEmitted ==
  /\ g_in.overload = "kdl" =>
       /\ ~ FailedReturn => \A k \in 2..NumEmitted : ValidatedBy(k, Emitted[k].positions)
       /\ \A c \in 1..Len(verify_calls) : verify_calls[c].sample # 1
  /\ g_in.overload = "cart" =>
       /\ ~ FailedReturn => \A k \in 1..NumEmitted : ValidatedBy(k, Emitted[k].positions)
       /\ \A c \in 1..Len(verify_calls) : verify_calls[c].sample = 1 =>
            /\ c = 1
            /\ verify_calls[c].position_last = g_in.initial_joint_position
            /\ verify_calls[c].velocity_last = g_in.initial_joint_velocity
            /\ verify_calls[c].duration_current = g_in.points[1]
            /\ verify_calls[c].duration_last = g_in.points[1]
       /\ (Len(ik_calls) >= 1 /\ ik_calls[1].ok /\ g_in.points[1] <= verify_epsilon) =>
            (FailedReturn /\ error_code = "PLANNING_FAILED" /\ Len(ik_calls) = 1)

\* C8 witness: the CartesianTrajectory overload rejected a trajectory because
\* of its first point, whose time_from_start is 0
C8_Witness ==
  /\ g_in.overload = "cart"
  /\ FailedReturn
  /\ error_code = "PLANNING_FAILED"
  /\ Len(verify_calls) = 1
  /\ verify_calls[1].sample = 1
  /\ g_in.points[1] = 0

\* quantities of waypoint k (k >= 2) computed from the emitted waypoints alone
WpDt(k) == Emitted[k].time_from_start - Emitted[k - 1].time_from_start
WpDtPrev(k) == IF k = 2 THEN Emitted[1].time_from_start ELSE WpDt(k - 1)
WpDp(k, x) == Emitted[k].positions[x] - Emitted[k - 1].positions[x]
WpFiniteDiffVelocity(k, x) == RDiv(RInt(WpDp(k, x)), RInt(WpDt(k)))
WpConstAccAcceleration(k, x) ==
  RDiv(RMul(RInt(2), RSub(RInt(WpDp(k, x)), RMul(Emitted[k - 1].velocities[x], RInt(WpDt(k))))), RInt(WpDt(k) * WpDt(k)))

\* C9 (as claimed): in both overloads every waypoint other than the first and
\* the last has velocity dp/dt and acceleration 2*(dp - v_prev*dt)/dt^2.
C9_FiniteDifferences ==
  Succeeded =>
    \A k \in 2..(NumEmitted - 1) : \A x \in 1..Len(joint_trajectory.joint_names) :
       /\ Emitted[k].velocities[x] = WpFiniteDiffVelocity(k, x)
       /\ Emitted[k].accelerations[x] = WpConstAccAcceleration(k, x)

\* C9 (amended): for every waypoint other than the first and the last, the
\* KDL overload emits acceleration a = 2*(dp - v_prev*dt)/dt^2 and velocity
\* v_prev + a*dt (= 2*dp/dt - v_prev); the CartesianTrajectory overload emits
\* velocity v = dp/dt and acceleration 2*(v - v_prev)/(dt + dt_prev), dt_prev
\* being the interval before the previous sample.
C9_EmittedDerivatives ==
  Succeeded =>
    \A k \in 2..(NumEmitted - 1) : \A x \in 1..Len(joint_trajectory.joint_names) :
       /\ Len(Emitted[k].velocities) = Len(joint_trajectory.joint_names)
       /\ Len(Emitted[k].accelerations) = Len(joint_trajectory.joint_names)
       /\ g_in.overload = "kdl" =>
            /\ Emitted[k].accelerations[x] = WpConstAccAcceleration(k, x)
            /\ Emitted[k].velocities[x] = RAdd(Emitted[k - 1].velocities[x], RMul(Emitted[k].accelerations[x], RInt(WpDt(k))))
            /\ Emitted[k].velocities[x] = RSub(RDiv(RInt(2 * WpDp(k, x)), RInt(WpDt(k))), Emitted[k - 1].velocities[x])
       /\ g_in.overload = "cart" =>
            /\ Emitted[k].velocities[x] = WpFiniteDiffVelocity(k, x)
            /\ Emitted[k].accelerations[x] = RDiv(RMul(RInt(2), RSub(Emitted[k].velocities[x], Emitted[k - 1].velocities[x])), RInt(WpDt(k) + WpDtPrev(k)))

\* C9 witness: the KDL overload succeeded with an interior waypoint that follows
\* a waypoint of non-zero velocity and whose velocity differs from dp/dt
C9_Witness ==
  /\ Succeeded
  /\ g_in.overload = "kdl"
  /\ NumEmitted >= 4
  /\ \E x \in 1..Len(joint_trajectory.joint_names) :
        /\ Emitted[2].velocities[x] # RZero
        /\ Emitted[3].velocities[x] # WpFiniteDiffVelocity(3, x)

\* C10: in both overloads computePoseIK is called once per sample in sample
\* order, first seeded with the initial joint position and then with the
\* solution of the previous call; a failed call is the last call.
C10_IKCalls ==
  /\ \A k \in 1..Len(ik_calls) :
        /\ ik_calls[k].sample = k
        /\ k = 1 => ik_calls[k].seed = g_in.initial_joint_position
        /\ k > 1 => ik_calls[k].seed = ik_calls[k - 1].solution
        /\ k < Len(ik_calls) => ik_calls[k].ok
  /\ pc = "loop" => Len(ik_calls) = iter - 1
  /\ pc \in {"loop", "returned"} => Len(ik_calls) <= NumSamples
  /\ Succeeded => Len(ik_calls) = NumSamples
  /\ (pc = "loop" \/ Succeeded) => NumEmitted = Len(ik_calls)

\* C10 witness: the third IK call failed, after two calls whose solutions
\* differ from the initial position and from each other
C10_Witness ==
  /\ FailedReturn
  /\ Len(ik_calls) = 3
  /\ ~ ik_calls[3].ok
  /\ ik_calls[2].seed # g_in.initial_joint_position
  /\ ik_calls[3].seed # ik_calls[2].seed

(***************************************************************************)
(* robot_trajectory::RobotTrajectory, as used by the appender and the      *)
(* sampling-time check: the deques waypoints_ and duration_from_previous_  *)
(***************************************************************************)
\* the variables of result's joint model group; "other" lies outside it
Vec(a, b) == [j \in Joints |-> IF j = JointOrder[1] THEN a ELSE b]

RobotStateOf(p, v, a, o) == [position |-> p, velocity |-> v, acceleration |-> a, other |-> o]

\* robot states in units of half the equality epsilon
WaypointStates ==
  { RobotStateOf(Vec(0, 0), Vec(0, 0), Vec(0, 0), 0),
    RobotStateOf(Vec(1, 1), Vec(0, 0), Vec(0, 0), 0),
    RobotStateOf(Vec(2, 1), Vec(0, 0), Vec(0, 0), 0),
    RobotStateOf(Vec(0, 0), Vec(2, 1), Vec(0, 0), 0),
    RobotStateOf(Vec(0, 0), Vec(0, 0), Vec(0, 3), 0),
    RobotStateOf(Vec(0, 0), Vec(0, 0), Vec(0, 0), 5) }

EmptyTrajectory == [waypoints |-> <<>>, durations |-> <<>>]

empty(t) == t.waypoints = <<>>
getWayPointCount(t) == Len(t.waypoints)
\* indices are 0-based as in the source
getWayPoint(t, index) == t.waypoints[index + 1]
getFirstWayPoint(t) == t.waypoints[1]
getLastWayPoint(t) == t.waypoints[Len(t.waypoints)]
getWayPointDurationFromPrevious(t, index) ==
  IF Len(t.durations) > index THEN t.durations[index + 1] ELSE 0

\* addSuffixWayPoint putting the waypoint in front of those already held
addSuffixWayPoint_front(t, state, dt) ==
  [waypoints |-> <<state>> \o t.waypoints, durations |-> <<dt>> \o t.durations]

addSuffixWayPoint(t, state, dt) ==
  [waypoints |-> Append(t.waypoints, state), durations |-> Append(t.durations, dt)]

\* RobotTrajectory::append(source, dt): all waypoints of source, the first of
\* them at duration dt from the previous end
append(t, source, dt) ==
  IF source.waypoints = <<>> THEN t
  ELSE [waypoints |-> t.waypoints \o source.waypoints,
        durations |-> t.durations \o <<dt>> \o Tail(source.durations)]

(***************************************************************************)
(* pilz::isRobotStateEqual                                                 *)
(***************************************************************************)
ROBOT_STATE_EQUALITY_EPSILON == 2

RECURSIVE SumSqDiff(_, _, _)
SumSqDiff(v1, v2, names) ==
  IF names = <<>> THEN 0
  ELSE (v1[Head(names)] - v2[Head(names)]) * (v1[Head(names)] - v2[Head(names)]) + SumSqDiff(v1, v2, Tail(names))

\* (v1 - v2).norm() > eps over the variables of the group
normExceeds(v1, v2, eps) == SumSqDiff(v1, v2, JointOrder) > eps * eps

\* isRobotStateEqual comparing the joint positions only
isRobotStateEqual_positionsOnly(state1, state2, eps) ==
  ~ normExceeds(state1.position, state2.position, eps)

isRobotStateEqual(state1, state2, eps) ==
  IF normExceeds(state1.position, state2.position, eps) THEN FALSE
  ELSE IF normExceeds(state1.velocity, state2.velocity, eps) THEN FALSE
  ELSE IF normExceeds(state1.acceleration, state2.acceleration, eps) THEN FALSE
  ELSE TRUE

(***************************************************************************)
(* TrajectoryAppender::merge                                               *)
(***************************************************************************)
RECURSIVE mergeLoop(_, _, _)
mergeLoop(result, source, i) ==
  IF i < getWayPointCount(source)
  THEN mergeLoop(addSuffixWayPoint(result, getWayPoint(source, i), getWayPointDurationFromPrevious(source, i)), source, i + 1)
  ELSE result

\* the condition of merge's if: the call takes the branch that skips source's first waypoint
mergeSplices(result, source) ==
  (~ empty(result)) /\ isRobotStateEqual(getLastWayPoint(result), getFirstWayPoint(source), ROBOT_STATE_EQUALITY_EPSILON)

\* merge whose splice loop starts at source's first waypoint
merge_fromFirst(result, source) ==
  IF (~ empty(result)) /\ isRobotStateEqual(getLastWayPoint(result), getFirstWayPoint(source), ROBOT_STATE_EQUALITY_EPSILON)
  THEN mergeLoop(result, source, 0)
  ELSE append(result, source, 0)

\* the value of result after merge(result, source)
merge(result, source) ==
  IF (~ empty(result)) /\ isRobotStateEqual(getLastWayPoint(result), getFirstWayPoint(source), ROBOT_STATE_EQUALITY_EPSILON)
  THEN mergeLoop(result, source, 1)
  ELSE append(result, source, 0)

StepDurations == {1, 2}

RECURSIVE TrajectoriesOfLen(_)
TrajectoriesOfLen(n) ==
  IF n = 0 THEN {EmptyTrajectory}
  ELSE {addSuffixWayPoint(t, w, d) : t \in TrajectoriesOfLen(n - 1), w \in WaypointStates, d \in StepDurations}

\* the segments handed to merge: source.getFirstWayPoint() needs a waypoint
Sources == UNION {TrajectoriesOfLen(n) : n \in 1..MaxSource}

InitMerge ==
  /\ VerifyIdle
  /\ GenIdle
  /\ SamplingIdle
  /\ RequestIdle
  /\ SearchIdle
  /\ PoseIKIdle
  /\ m_result = EmptyTrajectory
  /\ m_last = <<>>
  /\ m_totals = [merges |-> 0, sizes |-> 0, spliced |-> 0]

Merge ==
  /\ m_totals.merges < MaxMerges
  /\ \E source \in Sources :
       /\ getWayPointCount(m_result) + getWayPointCount(source) <= MaxResult
       /\ m_result' = merge(m_result, source)
       /\ m_last' = <<[result |-> m_result, source |-> source]>>
       /\ m_totals' = [merges |-> m_totals.merges + 1,
                       sizes |-> m_totals.sizes + getWayPointCount(source),
                       spliced |-> m_totals.spliced + (IF mergeSplices(m_result, source) THEN 1 ELSE 0)]
  /\ UNCHANGED <<verify_vars, gen_vars, sampling_vars, request_vars, search_vars, pose_ik_vars>>

NextMerge == Merge

SpecMerge == InitMerge /\ [][NextMerge]_vars

\* the boundary states of the last merge are equal as the claim words it:
\* position, velocity and acceleration of the group each within the epsilon
C5_Within(v1, v2) ==
  (v1["j1"] - v2["j1"]) * (v1["j1"] - v2["j1"]) + (v1["j2"] - v2["j2"]) * (v1["j2"] - v2["j2"]) <= ROBOT_STATE_EQUALITY_EPSILON * ROBOT_STATE_EQUALITY_EPSILON

C5_BoundaryEqual ==
  LET a == m_last[1].result.waypoints[Len(m_last[1].result.waypoints)]
      b == m_last[1].source.waypoints[1]
  IN  /\ C5_Within(a.position, b.position)
      /\ C5_Within(a.velocity, b.velocity)
      /\ C5_Within(a.acceleration, b.acceleration)

\* C5: merge(result, source) with non-empty source: when result is non-empty
\* and its last waypoint equals source's first within the epsilon, result
\* gains all of source's waypoints but the first (|result| + |source| - 1);
\* otherwise it gains all of them (|result| + |source|).
C5_MergeCount ==
  m_last # <<>> =>
    LET r == m_last[1].result
        src == m_last[1].source
    IN  IF r.waypoints # <<>> /\ C5_BoundaryEqual
        THEN /\ Len(m_result.waypoints) = Len(r.waypoints) + Len(src.waypoints) - 1
             /\ m_result.waypoints = r.waypoints \o Tail(src.waypoints)
        ELSE /\ Len(m_result.waypoints) = Len(r.waypoints) + Len(src.waypoints)
             /\ m_result.waypoints = r.waypoints \o src.waypoints

\* C5 witness: a two-waypoint segment was spliced onto a non-empty accumulator
\* whose last waypoint is within the epsilon of, but not identical to, the
\* segment's first
C5_Witness ==
  /\ m_last # <<>>
  /\ m_last[1].result.waypoints # <<>>
  /\ Len(m_last[1].source.waypoints) = 2
  /\ C5_BoundaryEqual
  /\ m_last[1].result.waypoints[Len(m_last[1].result.waypoints)].position # m_last[1].source.waypoints[1].position
  /\ Len(m_result.waypoints) = Len(m_last[1].result.waypoints) + 1

(***************************************************************************)
(* pilz::determineAndCheckSamplingTime                                     *)
(***************************************************************************)
SizeModulus == 2 ^ SizeBits

\* getWayPointCount() with the -1 forgotten
waypointsBeforeLast_all(t) == getWayPointCount(t) % SizeModulus

\* std::size_t n = trajectory->getWayPointCount() - 1;
waypointsBeforeLast(t) == (getWayPointCount(t) - 1) % SizeModulus

Max(a, b) == IF a > b THEN a ELSE b

RECURSIVE samplingLoop(_, _, _, _, _, _, _)
samplingLoop(first, second, eps, sampling_time, n1, n2, i) ==
  IF ~ (i < Max(n1, n2)) THEN TRUE
  ELSE IF i < n1 /\ Abs(sampling_time - getWayPointDurationFromPrevious(first, i)) > eps THEN FALSE
  ELSE IF i < n2 /\ Abs(sampling_time - getWayPointDurationFromPrevious(second, i)) > eps THEN FALSE
  ELSE samplingLoop(first, second, eps, sampling_time, n1, n2, (i + 1) % SizeModulus)

\* the value returned and the in/out argument sampling_time
determineAndCheckSamplingTime(first_trajectory, second_trajectory, eps, sampling_time) ==
  LET n1 == waypointsBeforeLast(first_trajectory)
      n2 == waypointsBeforeLast(second_trajectory)
      reference == IF n1 >= 2
                   THEN getWayPointDurationFromPrevious(first_trajectory, 1)
                   ELSE getWayPointDurationFromPrevious(second_trajectory, 1)
  IN  IF n1 < 2 /\ n2 < 2
      THEN [ret |-> FALSE, sampling_time |-> sampling_time]
      ELSE [ret |-> samplingLoop(first_trajectory, second_trajectory, eps, reference, n1, n2, 1),
            sampling_time |-> reference]

\* inter-waypoint durations in units of 0.05 s: 0.1 s, 0.15 s and 0.3 s
SamplingDurations == {2, 3, 6}

\* a trajectory with the given duration_from_previous_ entries
TrajectoryOfDurations(d) ==
  [waypoints |-> [k \in 1..Len(d) |-> RobotStateOf(Vec(0, 0), Vec(0, 0), Vec(0, 0), 0)], durations |-> d]

SamplingTrajectories == {TrajectoryOfDurations(d) : d \in SeqsUpTo(SamplingDurations, MaxWaypoints)}

InitSampling ==
  /\ VerifyIdle
  /\ GenIdle
  /\ MergeIdle
  /\ RequestIdle
  /\ SearchIdle
  /\ PoseIKIdle
  /\ s_args \in [first_trajectory : SamplingTrajectories, second_trajectory : SamplingTrajectories, epsilon : {0, 1}]
  /\ s_sampling_time = 7
  /\ s_ret = <<>>

CallSampling ==
  /\ s_ret = <<>>
  /\ LET r == determineAndCheckSamplingTime(s_args.first_trajectory, s_args.second_trajectory, s_args.epsilon, s_sampling_time)
     IN  /\ s_ret' = <<r.ret>>
         /\ s_sampling_time' = r.sampling_time
  /\ UNCHANGED <<s_args, verify_vars, gen_vars, merge_vars, request_vars, search_vars, pose_ik_vars>>

NextSampling == CallSampling

SpecSampling == InitSampling /\ [][NextSampling]_vars

C6_Count1 == Len(s_args.first_trajectory.waypoints)
C6_Count2 == Len(s_args.second_trajectory.waypoints)

\* the reference of the claim: the duration at index 1 of the first trajectory
\* with at least 3 waypoints
C6_Reference ==
  IF C6_Count1 >= 3 THEN s_args.first_trajectory.durations[2] ELSE s_args.second_trajectory.durations[2]

\* every interior duration (0-based index 1..count-2) of t is within the
\* epsilon of the reference
C6_InteriorOk(t) ==
  \A i \in 1..(Len(t.waypoints) - 2) : Abs(t.durations[i + 1] - C6_Reference) <= s_args.epsilon

\* C6: with both trajectories non-empty and at least one of 3 or more
\* waypoints, determineAndCheckSamplingTime returns true if and only if every
\* interior inter-waypoint duration of both trajectories is within epsilon of
\* the reference; the final interval of each is not checked; on true the
\* output sampling_time is the reference.
C6_InteriorIntervals ==
  (s_ret # <<>> /\ C6_Count1 >= 1 /\ C6_Count2 >= 1 /\ (C6_Count1 >= 3 \/ C6_Count2 >= 3)) =>
     /\ s_ret[1] <=> (C6_InteriorOk(s_args.first_trajectory) /\ C6_InteriorOk(s_args.second_trajectory))
     /\ s_ret[1] => s_sampling_time = C6_Reference

\* C6 witness: true was returned for two trajectories of different lengths, of
\* at least 3 waypoints each, whose final intervals both deviate from the
\* reference by more than epsilon
C6_Witness ==
  /\ s_ret = <<TRUE>>
  /\ C6_Count1 >= 3
  /\ C6_Count2 > C6_Count1
  /\ Abs(s_args.first_trajectory.durations[C6_Count1] - C6_Reference) > s_args.epsilon
  /\ Abs(s_args.second_trajectory.durations[C6_Count2] - C6_Reference) > s_args.epsilon
  /\ s_sampling_time = C6_Reference

\* C7: determineAndCheckSamplingTime returns false whenever both trajectories
\* have fewer than 3 waypoints, trajectories with 0 waypoints included.
C7_TooFewWaypointsFail ==
  (s_ret # <<>> /\ C6_Count1 < 3 /\ C6_Count2 < 3) => s_ret = <<FALSE>>

(***************************************************************************)
(* TrajectoryGenerator: validation of the request (trajectory_generator.h) *)
(***************************************************************************)
\* static constexpr double MIN_SCALING_FACTOR {0.0001};
MIN_SCALING_FACTOR == <<1, 10000>>
\* static constexpr double MAX_SCALING_FACTOR {1.};
MAX_SCALING_FACTOR == <<1, 1>>

\* the comparison with the lower bound taken as >=
isScalingFactorValid_closed(scaling_factor) ==
  RLe(MIN_SCALING_FACTOR, scaling_factor) /\ RLe(scaling_factor, MAX_SCALING_FACTOR)

isScalingFactorValid(scaling_factor) ==
  RGt(scaling_factor, MIN_SCALING_FACTOR) /\ RLe(scaling_factor, MAX_SCALING_FACTOR)

isCartesianGoalGiven(constraint) ==
  constraint.position_constraints = 1 /\ constraint.orientation_constraints = 1

isJointGoalGiven(constraint) == constraint.joint_constraints >= 1

\* a joint goal or a Cartesian goal, both together included
isOnlyOneGoalTypeGiven_or(constraint) ==
  isJointGoalGiven(constraint) \/ isCartesianGoalGiven(constraint)

isOnlyOneGoalTypeGiven(constraint) ==
  \/ (isJointGoalGiven(constraint) /\ ~ isCartesianGoalGiven(constraint))
  \/ (~ isJointGoalGiven(constraint) /\ isCartesianGoalGiven(constraint))

\* CREATE_MOVEIT_ERROR_CODE_EXCEPTION: the error code each exception carries
getErrorCode(exception) ==
  CASE exception = "VelocityScalingIncorrect" -> "INVALID_MOTION_PLAN"
    [] exception = "AccelerationScalingIncorrect" -> "INVALID_MOTION_PLAN"
    [] exception = "OnlyOneGoalTypeAllowed" -> "INVALID_GOAL_CONSTRAINTS"

\* scaling factors of a request: negative, zero, below, at and above
\* MIN_SCALING_FACTOR, inside the interval, MAX_SCALING_FACTOR and beyond it
ScalingFactors ==
  {<<-1, 1>>, <<0, 1>>, <<1, 20000>>, <<1, 10000>>, <<1, 5000>>, <<1, 2>>, <<1, 1>>, <<2, 1>>}

\* a moveit_msgs::Constraints, as far as the validation reads it: the sizes of
\* its three constraint arrays
MaxConstraints == 2
GoalConstraints ==
  [joint_constraints : 0..MaxConstraints, position_constraints : 0..MaxConstraints,
   orientation_constraints : 0..MaxConstraints]

Requests ==
  [max_velocity_scaling_factor : ScalingFactors,
   max_acceleration_scaling_factor : ScalingFactors,
   goal_constraint : GoalConstraints]

InitRequest ==
  /\ VerifyIdle
  /\ GenIdle
  /\ MergeIdle
  /\ SamplingIdle
  /\ SearchIdle
  /\ PoseIKIdle
  /\ rq_req \in Requests
  /\ rq_pc = "checkVelocityScaling"
  /\ rq_thrown = <<>>

\* validateRequest: checkVelocityScaling(req.max_velocity_scaling_factor)
checkVelocityScaling ==
  /\ rq_pc = "checkVelocityScaling"
  /\ IF ~ isScalingFactorValid(rq_req.max_velocity_scaling_factor)
     THEN rq_thrown' = <<"VelocityScalingIncorrect">> /\ rq_pc' = "thrown"
     ELSE rq_pc' = "checkAccelerationScaling" /\ UNCHANGED rq_thrown
  /\ UNCHANGED <<rq_req, verify_vars, gen_vars, merge_vars, sampling_vars, search_vars, pose_ik_vars>>

\* validateRequest: checkAccelerationScaling(req.max_acceleration_scaling_factor)
checkAccelerationScaling ==
  /\ rq_pc = "checkAccelerationScaling"
  /\ IF ~ isScalingFactorValid(rq_req.max_acceleration_scaling_factor)
     THEN rq_thrown' = <<"AccelerationScalingIncorrect">> /\ rq_pc' = "thrown"
     ELSE rq_pc' = "checkGoalConstraints" /\ UNCHANGED rq_thrown
  /\ UNCHANGED <<rq_req, verify_vars, gen_vars, merge_vars, sampling_vars, search_vars, pose_ik_vars>>

\* validateRequest: checkGoalConstraints, the test of the goal type
checkGoalConstraints ==
  /\ rq_pc = "checkGoalConstraints"
  /\ IF ~ isOnlyOneGoalTypeGiven(rq_req.goal_constraint)
     THEN rq_thrown' = <<"OnlyOneGoalTypeAllowed">> /\ rq_pc' = "thrown"
     ELSE rq_pc' = "validated" /\ UNCHANGED rq_thrown
  /\ UNCHANGED <<rq_req, verify_vars, gen_vars, merge_vars, sampling_vars, search_vars, pose_ik_vars>>

NextRequest ==
  \/ checkVelocityScaling
  \/ checkAccelerationScaling
  \/ checkGoalConstraints

SpecRequest == InitRequest /\ [][NextRequest]_vars

\* the scaling factors of ScalingFactors inside (0.0001, 1]
C11_Accepted == {<<1, 5000>>, <<1, 2>>, <<1, 1>>}

C12_OnlyOneGoalType ==
  LET c == rq_req.goal_constraint
      joint == c.joint_constraints # 0
      cartesian == c.position_constraints = 1 /\ c.orientation_constraints = 1
  IN  rq_pc \in {"validated", "thrown"} /\ rq_thrown \notin {<<"VelocityScalingIncorrect">>, <<"AccelerationScalingIncorrect">>} =>
        /\ (rq_pc = "validated") <=> (joint # cartesian)
        /\ (rq_thrown = <<"OnlyOneGoalTypeAllowed">>) <=> (joint = cartesian)
        /\ isOnlyOneGoalTypeGiven(c) <=> (joint # cartesian)

\* C12 witness: a constraint with a joint goal and a Cartesian goal was rejected
C12_Witness ==
  /\ rq_req.goal_constraint.joint_constraints >= 1
  /\ rq_req.goal_constraint.position_constraints = 1
  /\ rq_req.goal_constraint.orientation_constraints = 1
  /\ rq_thrown = <<"OnlyOneGoalTypeAllowed">>

\* C15: the validation accepts every scaling factor of the closed interval
\* [0.0001, 1], the lower bound 0.0001 included, and throws a scaling
\* exception only for factors outside of it.
C15_ClosedInterval ==
  /\ rq_thrown = <<"VelocityScalingIncorrect">> =>
       ~ (RLe(<<1, 10000>>, rq_req.max_velocity_scaling_factor) /\ RLe(rq_req.max_velocity_scaling_factor, <<1, 1>>))
  /\ rq_thrown = <<"AccelerationScalingIncorrect">> =>
       ~ (RLe(<<1, 10000>>, rq_req.max_acceleration_scaling_factor) /\ RLe(rq_req.max_acceleration_scaling_factor, <<1, 1>>))

(***************************************************************************)
(* Further properties of generateJointTrajectory                           *)
(***************************************************************************)
\* C14: the time-sample loop of the KDL::Trajectory overload terminates for
\* every sampling_time, values <= 0 included: the loop's exit test reads only
\* t_sample and trajectory.Duration(), so every pass that stays in the loop
\* must have increased t_sample.
C14_TimeSampleLoopAdvances ==
  [][(pc = "time_samples" /\ pc' = "time_samples") => t_sample' > t_sample]_vars

\* velocity of joint number i in the waypoint before emitted waypoint k (the
\* velocity the call starts from, before the first)
C16_VelocityBefore(k, i) ==
  IF k > 1 THEN Emitted[k - 1].velocities[i]
  ELSE IF g_in.overload = "kdl" THEN RZero
  ELSE g_in.initial_joint_velocity[joint_trajectory.joint_names[i]]

C16_VelocityWithinLimit(k, i) ==
  RLe(fabs(Emitted[k].velocities[i]), g_in.joint_limits[joint_trajectory.joint_names[i]].max_velocity)

C16_AccelerationWithinLimit(k, i) ==
  LET lim == g_in.joint_limits[joint_trajectory.joint_names[i]]
      a == fabs(Emitted[k].accelerations[i])
  IN  IF RLe(fabs(C16_VelocityBefore(k, i)), fabs(Emitted[k].velocities[i]))
      THEN lim.has_acceleration_limits => RLe(a, fabs(lim.max_acceleration))
      ELSE lim.has_deceleration_limits => RLe(a, fabs(lim.max_deceleration))

\* C16: every waypoint of a trajectory returned successfully respects the
\* joint limits it was validated against: for every joint the emitted
\* |velocity| is at most max_velocity and the emitted |acceleration| is at
\* most the declared max_acceleration (accelerating) or max_deceleration
\* (decelerating).
C16_EmittedWithinLimits ==
  Succeeded =>
    \A k \in 1..NumEmitted : \A i \in 1..Len(joint_trajectory.joint_names) :
      C16_VelocityWithinLimit(k, i) /\ C16_AccelerationWithinLimit(k, i)

(***************************************************************************)
(* Further properties of TrajectoryAppender::merge                         *)
(***************************************************************************)
\* C17: merge keeps the time strictly increasing: the segments merged have
\* strictly positive durations between consecutive waypoints, and after every
\* merge each waypoint of result but the first lies a strictly positive
\* duration after its predecessor, in the spliced and in the plain-append
\* branch.
C17_StrictlyIncreasingTime ==
  \A index \in 1..(getWayPointCount(m_result) - 1) :
    getWayPointDurationFromPrevious(m_result, index) > 0

\* the joints of initial_joint_position and the joints computePoseIK writes
\* into the IK solution are not the same set
C18_KeysDiffer ==
  DOMAIN g_in.initial_joint_position # getActiveJointModelNames(g_in.robot_model)

\* joint_names is the key set of initial_joint_position in map order, and the
\* arrays of every waypoint appended by the call are parallel to it
C18_Parallel ==
  /\ joint_trajectory.joint_names = Keys(g_in.initial_joint_position)
  /\ \A k \in 1..NumEmitted :
       /\ Len(Emitted[k].positions) = Len(joint_trajectory.joint_names)
       /\ Len(Emitted[k].velocities) = Len(joint_trajectory.joint_names)
       /\ Len(Emitted[k].accelerations) = Len(joint_trajectory.joint_names)
       /\ \A i \in 1..Len(joint_trajectory.joint_names) :
            Emitted[k].positions[i] = ik_calls[k].solution[joint_trajectory.joint_names[i]]

C19_ReferenceChoice ==
  s_ret # <<>> =>
    IF C6_Count1 < 3 /\ C6_Count2 < 3
    THEN s_ret = <<FALSE>> => s_sampling_time = 7
    ELSE s_sampling_time =
           (IF C6_Count1 >= 3
            THEN getWayPointDurationFromPrevious(s_args.first_trajectory, 1)
            ELSE getWayPointDurationFromPrevious(s_args.second_trajectory, 1))

\* the instant of sample k of the call
C20_SampleTime(k) ==
  IF g_in.overload = "kdl" THEN time_samples[k] ELSE g_in.points[k]

\* C20: on success the call has appended exactly one waypoint per sample, in
\* sample order and with the sample's instant as time_from_start, after the
\* points joint_trajectory held on entry, which are kept; on a failing return
\* all points, those held on entry included, are cleared.  The returned point
\* count equals the sample count only if joint_trajectory was empty on entry.
C20_AppendedAfterEntryPoints ==
  /\ Succeeded =>
       /\ Len(joint_trajectory.points) = Base + NumSamples
       /\ SubSeq(joint_trajectory.points, 1, Base) = g_in.entry.points
       /\ \A k \in 1..NumSamples : Emitted[k].time_from_start = C20_SampleTime(k)
       /\ (Len(joint_trajectory.points) = NumSamples) <=> (Base = 0)
  /\ FailedReturn => joint_trajectory.points = <<>>
  /\ pc = "loop" =>
       /\ Len(joint_trajectory.points) = Base + iter - 1
       /\ SubSeq(joint_trajectory.points, 1, Base) = g_in.entry.points

\* C20 witness: a call entered with a point left in joint_trajectory
\* succeeded on at least two samples, and returns one point more than samples
C20_Witness ==
  /\ Succeeded
  /\ Base = 1
  /\ NumSamples >= 2
  /\ Len(joint_trajectory.points) = NumSamples + 1
  /\ joint_trajectory.points[1] = StalePoint

\* C21: over any sequence of merges of non-empty segments into one
\* accumulator, each merge only adds a suffix: the waypoints the accumulator
\* held before the merge are still its first waypoints, unchanged and in
\* order, with their durations; the suffix added is the segment's waypoints
\* in segment order, all of them or all but the first; and the number of
\* waypoints is the sum of the segment sizes minus the number of merges that
\* took the branch skipping the segment's first waypoint.
C21_MergeSequence ==
  /\ Len(m_result.waypoints) = m_totals.sizes - m_totals.spliced
  /\ Len(m_result.durations) = Len(m_result.waypoints)
  /\ m_last # <<>> =>
       LET r == m_last[1].result
           src == m_last[1].source
           n == Len(r.waypoints)
       IN  /\ Len(m_result.waypoints) >= n
           /\ SubSeq(m_result.waypoints, 1, n) = r.waypoints
           /\ SubSeq(m_result.durations, 1, n) = r.durations
           /\ SubSeq(m_result.waypoints, n + 1, Len(m_result.waypoints))
                \in {src.waypoints, Tail(src.waypoints)}

\* C21 witness: three segments were merged, exactly one merge skipped the
\* segment's first waypoint, and the last merge added a whole segment to a
\* non-empty accumulator
C21_Witness ==
  /\ m_totals.merges = 3
  /\ m_totals.spliced = 1
  /\ m_totals.sizes = 4
  /\ Len(m_result.waypoints) = 3
  /\ m_last[1].result.waypoints # <<>>
  /\ SubSeq(m_result.waypoints, Len(m_last[1].result.waypoints) + 1, 3) = m_last[1].source.waypoints

(***************************************************************************)
(* The interval handed to the validator by the KDL::Trajectory overload    *)
(***************************************************************************)
\* C22: in the KDL::Trajectory overload called with a sampling_time above the
\* validator's epsilon, every call of verifySampleJointLimits gets a current
\* interval above that epsilon (sampling_time for the samples before the
\* last, the rest of the duration for the last), so a PLANNING_FAILED result
\* comes from a call that was not refused for its interval.
C22_IntervalAboveEpsilon ==
  (g_in # <<>> /\ g_in.overload = "kdl" /\ g_in.sampling_time > verify_epsilon) =>
    /\ \A k \in 1..Len(verify_calls) :
         /\ verify_calls[k].duration_current > verify_epsilon
         /\ verify_calls[k].sample < Len(time_samples)
              => verify_calls[k].duration_current = g_in.sampling_time
         /\ verify_calls[k].sample = Len(time_samples)
              => verify_calls[k].duration_current
                   = time_samples[Len(time_samples)] - time_samples[Len(time_samples) - 1]
    /\ (pc = "returned" /\ error_code = "PLANNING_FAILED") =>
         /\ verify_calls # <<>>
         /\ verify_calls[Len(verify_calls)].verdict = FALSE
         /\ verify_calls[Len(verify_calls)].duration_current > verify_epsilon

\* C22 witness: a call with sampling_time above the epsilon ended in
\* PLANNING_FAILED at its last sample, whose interval is shorter than
\* sampling_time
C22_Witness ==
  /\ g_in # <<>>
  /\ g_in.overload = "kdl"
  /\ g_in.sampling_time > verify_epsilon
  /\ pc = "returned"
  /\ error_code = "PLANNING_FAILED"
  /\ verify_calls[Len(verify_calls)].sample = Len(time_samples)
  /\ verify_calls[Len(verify_calls)].duration_current < g_in.sampling_time

(***************************************************************************)
(* pilz::linearSearchIntersectionPoint and pilz::intersectionFound         *)
(***************************************************************************)
\* the positions of the link are points of a line with coordinates 0..MaxCoord
MaxCoord == 2
\* the searched trajectory holds at most MaxSearchWaypoints waypoints
MaxSearchWaypoints == 3

\* (a - b).norm()
norm(a, b) == IF a >= b THEN a - b ELSE b - a

intersectionFound(p_center, p_current, p_next, r) ==
  (norm(p_current, p_center) <= r) /\ (norm(p_next, p_center) >= r)

\* traj, as the position of the link at each waypoint; index on entry
SearchInputs ==
  [center_position : 0..MaxCoord, r : 0..MaxCoord,
   traj : SeqsUpTo(0..MaxCoord, MaxSearchWaypoints),
   inverseOrder : BOOLEAN, index : {0, SizeModulus - 1}]

InitSearch ==
  /\ VerifyIdle
  /\ GenIdle
  /\ MergeIdle
  /\ SamplingIdle
  /\ RequestIdle
  /\ PoseIKIdle
  /\ ls_in \in SearchInputs
  /\ ls_pc = "entry"
  /\ ls_i = 0
  /\ ls_index = ls_in.index
  /\ ls_ret = <<>>
  /\ ls_accessed = {}

\* const size_t waypoint_num = traj->getWayPointCount();
waypoint_num == Len(ls_in.traj)

\* waypoint_num-1 in std::size_t
waypoint_num_minus_1 == (waypoint_num - 1) % SizeModulus

\* the condition of the for loop that runs
searchLoopCondition ==
  IF ls_in.inverseOrder THEN ls_i > 0 ELSE ls_i < waypoint_num_minus_1

\* the index of the second waypoint handed to intersectionFound
searchNeighbour == IF ls_in.inverseOrder THEN ls_i - 1 ELSE ls_i + 1

\* getWayPointPtr(k) reads an element that the deque holds
waypointExists(k) == k < waypoint_num

\* the body of the for loop, with the positions read for waypoint i and its neighbour
searchBody(p_current, p_next) ==
  /\ ls_accessed' = ls_accessed \cup {ls_i, searchNeighbour}
  /\ IF intersectionFound(ls_in.center_position, p_current, p_next, ls_in.r)
     THEN /\ ls_index' = ls_i
          /\ ls_ret' = <<TRUE>>
          /\ ls_pc' = "returned"
          /\ UNCHANGED ls_i
     ELSE /\ ls_i' = (IF ls_in.inverseOrder THEN ls_i - 1 ELSE (ls_i + 1) % SizeModulus)
          /\ UNCHANGED <<ls_index, ls_ret, ls_pc>>

\* the for statement is entered: i is initialised
SearchBegin ==
  /\ ls_pc = "entry"
  /\ ls_pc' = "loop"
  /\ ls_i' = (IF ls_in.inverseOrder THEN waypoint_num_minus_1 ELSE 0)
  /\ UNCHANGED <<ls_in, ls_index, ls_ret, ls_accessed, verify_vars, gen_vars, merge_vars, sampling_vars, request_vars, pose_ik_vars>>

\* one pass of the loop over waypoints that the trajectory holds
SearchStep ==
  /\ ls_pc = "loop"
  /\ searchLoopCondition
  /\ waypointExists(ls_i) /\ waypointExists(searchNeighbour)
  /\ searchBody(ls_in.traj[ls_i + 1], ls_in.traj[searchNeighbour + 1])
  /\ UNCHANGED <<ls_in, verify_vars, gen_vars, merge_vars, sampling_vars, request_vars, pose_ik_vars>>

\* one pass of the loop that reads past the end of the deque of waypoints:
\* the read is undefined and yields any position
SearchStepOutOfRange ==
  /\ ls_pc = "loop"
  /\ searchLoopCondition
  /\ ~ (waypointExists(ls_i) /\ waypointExists(searchNeighbour))
  /\ \E g_current \in 0..MaxCoord, g_next \in 0..MaxCoord :
       searchBody(IF waypointExists(ls_i) THEN ls_in.traj[ls_i + 1] ELSE g_current,
                  IF waypointExists(searchNeighbour) THEN ls_in.traj[searchNeighbour + 1] ELSE g_next)
  /\ UNCHANGED <<ls_in, verify_vars, gen_vars, merge_vars, sampling_vars, request_vars, pose_ik_vars>>

\* the read past the end of the deque ends the process
SearchFault ==
  /\ ls_pc = "loop"
  /\ searchLoopCondition
  /\ ~ (waypointExists(ls_i) /\ waypointExists(searchNeighbour))
  /\ ls_accessed' = ls_accessed \cup {ls_i, searchNeighbour}
  /\ ls_pc' = "fault"
  /\ UNCHANGED <<ls_in, ls_i, ls_index, ls_ret, verify_vars, gen_vars, merge_vars, sampling_vars, request_vars, pose_ik_vars>>

\* the loop is left: return false;
SearchReturnFalse ==
  /\ ls_pc = "loop"
  /\ ~ searchLoopCondition
  /\ ls_ret' = <<FALSE>>
  /\ ls_pc' = "returned"
  /\ UNCHANGED <<ls_in, ls_i, ls_index, ls_accessed, verify_vars, gen_vars, merge_vars, sampling_vars, request_vars, pose_ik_vars>>

NextSearch ==
  \/ SearchBegin
  \/ SearchStep
  \/ SearchStepOutOfRange
  \/ SearchFault
  \/ SearchReturnFalse

SpecSearch == InitSearch /\ [][NextSearch]_vars

\* waypoint k is within distance r of the center
C23_Within(k) == norm(ls_in.traj[k + 1], ls_in.center_position) <= ls_in.r

\* waypoint k is at distance r or more of the center
C23_AtOrBeyond(k) == norm(ls_in.traj[k + 1], ls_in.center_position) >= ls_in.r

\* the indices the claim lets the search return
C23_Hits ==
  IF ls_in.inverseOrder
  THEN {k \in 1..(waypoint_num - 1) : C23_Within(k) /\ C23_AtOrBeyond(k - 1)}
  ELSE {k \in 0..(waypoint_num - 2) : C23_Within(k) /\ C23_AtOrBeyond(k + 1)}

\* the index the claim expects: the largest hit in inverse order, the smallest otherwise
C23_Expected ==
  IF ls_in.inverseOrder
  THEN CHOOSE k \in C23_Hits : \A h \in C23_Hits : h <= k
  ELSE CHOOSE k \in C23_Hits : \A h \in C23_Hits : k <= h

\* the search over one waypoint or more: true with the expected index, or
\* false with index as on entry; it reads only waypoints that exist
C23_NonEmptySearch ==
  (ls_in # <<>> /\ waypoint_num >= 1) =>
    /\ ls_pc # "fault"
    /\ \A k \in ls_accessed : waypointExists(k)
    /\ ls_pc = "returned" =>
         IF C23_Hits # {}
         THEN ls_ret = <<TRUE>> /\ ls_index = C23_Expected
         ELSE ls_ret = <<FALSE>> /\ ls_index = ls_in.index

\* C23: linearSearchIntersectionPoint over at least one waypoint returns
\* true with index the smallest i (forward order) for which waypoint i is
\* within r of the center and waypoint i+1 at distance r or more, or the
\* largest i >= 1 (inverse order) for which waypoint i is within r and
\* waypoint i-1 at distance r or more; without such an i it returns false
\* and leaves index as it was. Over 0 waypoints it reads no waypoint and
\* returns false.
C23_SearchResult ==
  /\ C23_NonEmptySearch
  /\ (ls_in # <<>> /\ waypoint_num = 0) =>
       /\ ls_accessed = {}
       /\ ls_pc # "fault"
       /\ ls_pc = "returned" => (ls_ret = <<FALSE>> /\ ls_index = ls_in.index)

(***************************************************************************)
(* pilz::computePoseIK with pilz::isStateColliding as validity callback    *)
(***************************************************************************)
\* setFromIK tries at most MaxCandidates candidate states
MaxCandidates == 2

\* the validity callback; collision is collision_res.collision after
\* checkSelfCollision of the candidate
isStateColliding(test_for_self_collision, collision) ==
  IF ~ test_for_self_collision THEN TRUE ELSE ~ collision

\* RobotState::setFromIK: the solver proposes candidate states until the
\* callback accepts one (<<its positions>>) or it gives up or times out (<<>>)
RECURSIVE setFromIK(_, _)
setFromIK(candidates, check_self_collision) ==
  IF candidates = <<>> THEN <<>>
  ELSE IF isStateColliding(check_self_collision, Head(candidates).collision)
       THEN <<Head(candidates).position>>
       ELSE setFromIK(Tail(candidates), check_self_collision)

\* the values the callback returned during setFromIK, in order
RECURSIVE callbackVerdicts(_, _)
callbackVerdicts(candidates, check_self_collision) ==
  IF candidates = <<>> THEN <<>>
  ELSE IF isStateColliding(check_self_collision, Head(candidates).collision)
       THEN <<TRUE>>
       ELSE <<FALSE>> \o callbackVerdicts(Tail(candidates), check_self_collision)

\* a candidate state of the solver and whether it is in self collision
IKCandidates == [position : {[j \in Joints |-> p] : p \in 0..MaxPos}, collision : BOOLEAN]

\* solution on entry: empty, or holding entries
SolutionsOnEntry ==
  {[j \in {} |-> 0], [j \in Joints |-> MaxPos + 1], [j \in {JointOrder[2]} |-> MaxPos + 1]}

PoseIKInputs ==
  [robot_model : RobotModels, frame_id : {"world", "tool"}, seed : {[j \in Joints |-> 0]},
   solution : SolutionsOnEntry, check_self_collision : BOOLEAN,
   candidates : SeqsUpTo(IKCandidates, MaxCandidates)]

InitPoseIK ==
  /\ VerifyIdle
  /\ GenIdle
  /\ MergeIdle
  /\ SamplingIdle
  /\ RequestIdle
  /\ SearchIdle
  /\ pik_in \in PoseIKInputs
  /\ pik_out = <<>>

CallComputePoseIK ==
  /\ pik_out = <<>>
  /\ LET r == computePoseIK(pik_in.robot_model, pik_in.frame_id, pik_in.seed, pik_in.solution,
                            setFromIK(pik_in.candidates, pik_in.check_self_collision))
         reached == pik_in.robot_model.hasJointModelGroup /\ pik_in.robot_model.canSetStateFromIK
                      /\ pik_in.frame_id = pik_in.robot_model.model_frame
     IN  pik_out' = <<[ok |-> r.ok, solution |-> r.solution,
                       callback |-> IF reached
                                    THEN callbackVerdicts(pik_in.candidates, pik_in.check_self_collision)
                                    ELSE <<>>]>>
  /\ UNCHANGED <<pik_in, verify_vars, gen_vars, merge_vars, sampling_vars, request_vars, search_vars>>

NextPoseIK == CallComputePoseIK

SpecPoseIK == InitPoseIK /\ [][NextPoseIK]_vars

\* the solve fails: every candidate is rejected, which takes a self-collision
\* check that is switched on and a collision of the candidate
C24_SolveFails ==
  \A k \in 1..Len(pik_in.candidates) :
    pik_in.check_self_collision /\ pik_in.candidates[k].collision

\* one of the failures the claim lists
C24_Fails ==
  \/ ~ pik_in.robot_model.hasJointModelGroup
  \/ ~ pik_in.robot_model.canSetStateFromIK
  \/ pik_in.frame_id # pik_in.robot_model.model_frame
  \/ C24_SolveFails

\* C24: computePoseIK returns false and leaves solution as it was when the
\* group is unknown, when the group has no IK solver for the link, when
\* frame_id is not the model frame, or when the solve fails; when it returns
\* true, solution holds a position for every active joint of the group and
\* its other entries are as on entry. With check_self_collision false the
\* validity callback accepts every candidate it is asked about.
C24_PoseIK ==
  pik_out # <<>> =>
    LET out == pik_out[1]
        active == pik_in.robot_model.active_joint_model_names
    IN  /\ C24_Fails => (out.ok = FALSE /\ out.solution = pik_in.solution)
        /\ out.ok = TRUE =>
             /\ ~ C24_Fails
             /\ active \subseteq DOMAIN out.solution
             /\ DOMAIN out.solution = active \cup DOMAIN pik_in.solution
             /\ \A j \in active : out.solution[j] \in 0..MaxPos
             /\ \A j \in (DOMAIN pik_in.solution) \ active : out.solution[j] = pik_in.solution[j]
        /\ ~ pik_in.check_self_collision =>
             \A k \in 1..Len(out.callback) : out.callback[k] = TRUE

\* C24 witness: with the self-collision check on, the first candidate was
\* rejected and the second accepted; the group has one active joint, and
\* solution held an entry for another joint, which is still there
C24_Witness ==
  /\ pik_out # <<>>
  /\ pik_out[1].ok = TRUE
  /\ pik_out[1].callback = <<FALSE, TRUE>>
  /\ pik_in.robot_model.active_joint_model_names = {JointOrder[1]}
  /\ DOMAIN pik_in.solution = {JointOrder[2]}
  /\ DOMAIN pik_out[1].solution = Joints
  /\ pik_out[1].solution[JointOrder[2]] = pik_in.solution[JointOrder[2]]

\* C24 second witness: with the self-collision check off, the callback was
\* asked about a colliding candidate and accepted it
C24_WitnessAcceptsAll ==
  /\ pik_out # <<>>
  /\ ~ pik_in.check_self_collision
  /\ pik_in.candidates # <<>>
  /\ pik_in.candidates[1].collision
  /\ pik_out[1].callback = <<TRUE>>
  /\ pik_out[1].ok = TRUE

====
